---- MODULE Spec2Model ----
(***************************************************************************)
(* Payment API: wallet ledger (credit / debit / read) and order creation   *)
(* with idempotency keys, as implemented by app/services.py and the        *)
(* routes in app/routes_wallet.py and app/routes_orders.py.                *)
(*                                                                         *)
(* The database is PostgreSQL-like: READ COMMITTED statements, row locks   *)
(* taken by SELECT ... FOR UPDATE and held until the transaction ends,     *)
(* constraint violations raised when the INSERT is flushed at commit.      *)
(* Every HTTP request runs on its own worker with its own Session, so the  *)
(* statements of different requests interleave.  Amounts are integers      *)
(* (minor units).                                                          *)
(***************************************************************************)
EXTENDS Integers, FiniteSets, Sequences, TLC

\* ---------------------------------------------------------------- bounds
NReq == 2
MaxAmt == 2
MaxInitBal == 2
\* the significand of the model's binary floating point, in bits (the
\* float of the code has 53): every integer up to 2^FloatPrecision is a
\* float, beyond it only every second, fourth, ... integer is
FloatPrecision == 5

\* routes_orders.create_order: the largest amount an order may have
MaxOrderAmount == 1000000

Reqs == 1..NReq
Customers == {"c1", "c2"}
NoKey == "None"
Keys == {NoKey, "k1"}
Currencies == {"INR", "USD"}
OrderAmounts == {0, 1, MaxOrderAmount, MaxOrderAmount + 1}
\* a negative amount, zero, the smallest and the largest amount
WalletAmounts == {-1, 0, 1, MaxAmt}
InitBalances == 0..MaxInitBal

\* ------------------------------------------------------------- variables
VARIABLES
    settings,   \* app.config.settings: the feature flags read by the core
    wallets,    \* committed Wallet rows: customer_id -> balance
    lock,       \* row locks of the Wallet table: customer_id -> holders
    reqs,       \* one record per request worker
    rejected,   \* the latest request refused by the route before the core
    balance0,   \* history: the wallets at the start
    orders,     \* committed Order rows
    uuid_count, \* how many uuid4() values have been drawn
    order_key_unique, \* schema: is Order.idempotency_key declared unique
    listed,     \* the latest answer of GET /orders
    wallet_rows, \* how many Wallet rows each customer_id has
    audit,      \* the AUDIT lines written to the log
    users,      \* what get_user finds: user_id -> is_active
    user_rows   \* the rows of the User table

vars == <<settings, wallets, lock, reqs, rejected, balance0, orders, uuid_count, order_key_unique, listed, wallet_rows, audit, users, user_rows>>

\* ------------------------------------------------------------- responses
NoResult == [status |-> 0, detail |-> "", balance |-> 0,
             order_id |-> 0, order_status |-> ""]

INVALID_AMOUNT_MESSAGE == "Amount must be positive"
UNAUTHORIZED_MODIFY_WALLET == "Not authorized to modify this wallet"
UNAUTHORIZED_VIEW_WALLET == "Not authorized to view this wallet"

WalletResponse(b) == [NoResult EXCEPT !.status = 200, !.balance = b]
HTTPException(code, msg) == [NoResult EXCEPT !.status = code, !.detail = msg]
\* POST /orders answers 201 with the order's id and status
OrderResponse(id, st) ==
    [NoResult EXCEPT !.status = 201, !.order_id = id, !.order_status = st]

IdleReq ==
    [pc |-> "idle", op |-> "", caller |-> "", customer_id |-> "",
     amount |-> 0, old_balance |-> 0, is_new |-> FALSE,
     currency |-> "", idempotency_key |-> "", order |-> 0,
     after |-> {}, rivals |-> {},
     task |-> "", elapsed |-> 0,
     failed |-> FALSE,
     user_id |-> "", email |-> "",
     result |-> NoResult]

NoRejected == [op |-> "", caller |-> "", customer_id |-> "", amount |-> 0,
               result |-> NoResult]

\* GET /orders answers 200 with the rows of the customer
NoListing == [status |-> 0, caller |-> "", customer_id |-> "", orders |-> {}]
OrderList(caller, c, rows) ==
    [status |-> 200, caller |-> caller, customer_id |-> c, orders |-> rows]

\* transaction_settlement_window, counted in poll intervals of the
\* settlement loop: unset (0), negative, or one interval
SettlementWindows == {-1, 0, 1}

\* ------------------------------------------------------------------ Init
\* create_user stores every User with is_active=True
RegisteredUsers == [u \in Customers |-> TRUE]

\* the e-mail address each seeded user registered with
Emails == {"e1", "e2"}
EmailOf(u) == IF u = "c1" THEN "e1" ELSE "e2"

\* one User row for each registered user; `by` is the registration that
\* stored the row (0: stored before the run)
StoredUsers ==
    {[user_id |-> u, email |-> EmailOf(u), by |-> 0] : u \in DOMAIN users}

\* one Wallet row for each customer that has a balance
StoredRows == [c \in Customers |-> IF c \in DOMAIN wallets THEN 1 ELSE 0]

\* app/config.py: both feature flags default to False, the settlement
\* window to 0.0
DefaultSettings == [enable_strict_idempotency_check |-> FALSE,
                    transaction_settlement_window |-> 0,
                    enable_graceful_degradation |-> FALSE]

\* the wallet ledger under the default configuration, with any wallets
\* that earlier credits can have left behind
Init ==
    /\ settings = DefaultSettings
    /\ \E S \in SUBSET Customers : wallets \in [S -> InitBalances]
    /\ lock = [c \in Customers |-> {}]
    /\ reqs = [r \in Reqs |-> IdleReq]
    /\ rejected = NoRejected
    /\ balance0 = wallets
    /\ orders = {}
    /\ uuid_count = 0
    /\ order_key_unique = TRUE
    /\ listed = NoListing
    /\ wallet_rows = StoredRows
    /\ audit = {}
    /\ users = RegisteredUsers
    /\ user_rows = StoredUsers

\* the order store, empty, under any setting of the feature flags; the
\* Order table with or without a unique constraint on idempotency_key
OrderInit ==
    /\ settings \in [enable_strict_idempotency_check : BOOLEAN,
                     transaction_settlement_window : {0},
                     enable_graceful_degradation : BOOLEAN]
    /\ order_key_unique \in BOOLEAN
    /\ wallets = << >>
    /\ lock = [c \in Customers |-> {}]
    /\ reqs = [r \in Reqs |-> IdleReq]
    /\ rejected = NoRejected
    /\ balance0 = wallets
    /\ orders = {}
    /\ uuid_count = 0
    /\ listed = NoListing
    /\ wallet_rows = StoredRows
    /\ audit = {}
    /\ users = RegisteredUsers
    /\ user_rows = StoredUsers

\* the order store, empty, with the idempotency check on or off and any
\* settlement window
SettlementInit ==
    /\ settings \in [enable_strict_idempotency_check : BOOLEAN,
                     transaction_settlement_window : SettlementWindows,
                     enable_graceful_degradation : {FALSE}]
    /\ order_key_unique = TRUE
    /\ wallets = << >>
    /\ lock = [c \in Customers |-> {}]
    /\ reqs = [r \in Reqs |-> IdleReq]
    /\ rejected = NoRejected
    /\ balance0 = wallets
    /\ orders = {}
    /\ uuid_count = 0
    /\ listed = NoListing
    /\ wallet_rows = StoredRows
    /\ audit = {}
    /\ users = RegisteredUsers
    /\ user_rows = StoredUsers

\* the order store, empty, next to a wallet of c1 holding 1 (c2 has none),
\* with the idempotency check enabled
ReadInit ==
    /\ settings = [DefaultSettings EXCEPT
                     !.enable_strict_idempotency_check = TRUE]
    /\ order_key_unique = TRUE
    /\ wallets = [c \in {"c1"} |-> 1]
    /\ lock = [c \in Customers |-> {}]
    /\ reqs = [r \in Reqs |-> IdleReq]
    /\ rejected = NoRejected
    /\ balance0 = wallets
    /\ orders = {}
    /\ uuid_count = 0
    /\ listed = NoListing
    /\ wallet_rows = StoredRows
    /\ audit = {}
    /\ users = RegisteredUsers
    /\ user_rows = StoredUsers

\* the order store, empty, with the idempotency check enabled and
\* degradation on or off
FailureInit ==
    /\ settings \in [enable_strict_idempotency_check : {TRUE},
                     transaction_settlement_window : {0},
                     enable_graceful_degradation : BOOLEAN]
    /\ order_key_unique = TRUE
    /\ wallets = << >>
    /\ lock = [c \in Customers |-> {}]
    /\ reqs = [r \in Reqs |-> IdleReq]
    /\ rejected = NoRejected
    /\ balance0 = wallets
    /\ orders = {}
    /\ uuid_count = 0
    /\ listed = NoListing
    /\ wallet_rows = StoredRows
    /\ audit = {}
    /\ users = RegisteredUsers
    /\ user_rows = StoredUsers

\* the order store, empty, next to a wallet of c1 holding 1 (c2 has none),
\* with every feature on:
\* idempotency check, a settlement window of one poll, degradation
LifecycleInit ==
    /\ settings = [enable_strict_idempotency_check |-> TRUE,
                   transaction_settlement_window |-> 1,
                   enable_graceful_degradation |-> TRUE]
    /\ order_key_unique = TRUE
    /\ wallets = [c \in {"c1"} |-> 1]
    /\ lock = [c \in Customers |-> {}]
    /\ reqs = [r \in Reqs |-> IdleReq]
    /\ rejected = NoRejected
    /\ balance0 = wallets
    /\ orders = {}
    /\ uuid_count = 0
    /\ listed = NoListing
    /\ wallet_rows = StoredRows
    /\ audit = {}
    /\ users = RegisteredUsers
    /\ user_rows = StoredUsers

\* the state of ReadInit with any set of registered users, each active or
\* deactivated
IdentityInit ==
    /\ settings = [DefaultSettings EXCEPT
                     !.enable_strict_idempotency_check = TRUE]
    /\ order_key_unique = TRUE
    /\ wallets = [c \in {"c1"} |-> 1]
    /\ lock = [c \in Customers |-> {}]
    /\ reqs = [r \in Reqs |-> IdleReq]
    /\ rejected = NoRejected
    /\ balance0 = wallets
    /\ orders = {}
    /\ uuid_count = 0
    /\ listed = NoListing
    /\ wallet_rows = StoredRows
    /\ audit = {}
    /\ \E S \in SUBSET Customers : users \in [S -> BOOLEAN]
    /\ user_rows = StoredUsers

\* the default configuration with one registered user: the other user_id
\* and the other e-mail address are free
RegisterInit ==
    /\ settings = DefaultSettings
    /\ order_key_unique = FALSE
    /\ wallets = [c \in {"c1"} |-> 1]
    /\ lock = [c \in Customers |-> {}]
    /\ reqs = [r \in Reqs |-> IdleReq]
    /\ rejected = NoRejected
    /\ balance0 = wallets
    /\ orders = {}
    /\ uuid_count = 0
    /\ listed = NoListing
    /\ wallet_rows = StoredRows
    /\ audit = {}
    /\ \E S \in {{}, {"c1"}} : users = [u \in S |-> TRUE]
    /\ user_rows = StoredUsers

\* the wallet ledger with one stored balance at the edge of the floats'
\* exact range
PrecisionInit ==
    /\ settings = DefaultSettings
    /\ order_key_unique = FALSE
    /\ \E b \in {2^FloatPrecision - 1, 2^FloatPrecision} :
          wallets = [c \in {"c1"} |-> b]
    /\ lock = [c \in Customers |-> {}]
    /\ reqs = [r \in Reqs |-> IdleReq]
    /\ rejected = NoRejected
    /\ balance0 = wallets
    /\ orders = {}
    /\ uuid_count = 0
    /\ listed = NoListing
    /\ wallet_rows = StoredRows
    /\ audit = {}
    /\ users = RegisteredUsers
    /\ user_rows = StoredUsers

\* ---------------------------------------------------------------- helpers
\* the distance between neighbouring floats around the magnitude a
RECURSIVE Spacing(_, _)
Spacing(a, s) == IF a < s * 2^FloatPrecision THEN s ELSE Spacing(a, 2 * s)

\* the float nearest to the magnitude a, ties to the even significand
NearestFloat(a) ==
    LET s == Spacing(a, 1)
        q == a \div s
        rest == a % s
        up == 2 * rest > s \/ (2 * rest = s /\ q % 2 = 1)
    IN  (IF up THEN q + 1 ELSE q) * s

\* float(x): the conversion of a Decimal or a JSON number to a float
float(x) == IF x < 0 THEN 0 - NearestFloat(0 - x) ELSE NearestFloat(x)

\* new_balance = old_balance + amount / old_balance - amount on floats:
\* the exact result, rounded to a float
NewBalance(op, old_balance, amount) ==
    IF op = "credit" THEN float(old_balance + float(amount))
                     ELSE float(old_balance - float(amount))

HasWallet(c) == c \in DOMAIN wallets

\* with_for_update(): the row lock is granted only when no other
\* transaction holds it
RowLockAvailable_NoLock(c) == TRUE
\* one lock for the whole Wallet table
RowLockAvailable_Table(c) == \A x \in Customers : lock[x] = {}
RowLockAvailable(c) == lock[c] = {}

\* the sufficient-funds rule of debit_wallet
InsufficientBalance_Off(current_balance, amount) == FALSE
InsufficientBalance_Strict(current_balance, amount) == current_balance <= amount
InsufficientBalance(current_balance, amount) == current_balance < amount

\* the amount rule of the wallet routes
InvalidWalletAmount_Negative(amount) == amount < 0
InvalidWalletAmount(amount) == amount <= 0

\* the Wallet table without the unique constraint
WalletInsertConflict_None(c) == FALSE

\* Wallet.customer_id is unique ("one wallet per customer"): the INSERT of
\* a second row for the customer raises IntegrityError when flushed
WalletInsertConflict(c) == HasWallet(c)

\* the commit of db.add(Wallet(customer_id=c, balance=0)) stores one more row
Inserted(c) == [wallet_rows EXCEPT ![c] = @ + 1]

\* an audit line that reports the balance read as the new balance
AuditRecord_Unchanged(r, op, old_balance) ==
    [by |-> r, op |-> op, customer_id |-> reqs[r].customer_id,
     old_balance |-> old_balance, amount |-> reqs[r].amount,
     new_balance |-> old_balance]

\* logger.info("AUDIT: WALLET_CREDIT / WALLET_DEBIT customer_id=...
\* old_balance=... amount=... new_balance=..."), written once new_balance
\* is computed and before wallet.balance is assigned and committed
AuditRecord(r, op, old_balance) ==
    [by |-> r, op |-> op, customer_id |-> reqs[r].customer_id,
     old_balance |-> old_balance, amount |-> reqs[r].amount,
     new_balance |-> NewBalance(op, old_balance, reqs[r].amount)]

Release(c, r) == [lock EXCEPT ![c] = @ \ {r}]
ReleaseAll(r) == [c \in Customers |-> lock[c] \ {r}]

\* slots are taken in index order
CanStart(r) ==
    /\ reqs[r].pc = "idle"
    /\ \A q \in Reqs : q < r => reqs[q].pc # "idle"

\* ------------------------------------------------- auth.get_current_user
\* an identity resolution that does not look at is_active
get_current_user_AnyAccount(user_id) ==
    IF user_id \notin DOMAIN users
    THEN HTTPException(404, "User not found")
    ELSE NoResult

\* the dependency of every wallet and order route: the token's user must
\* exist (404) and be active (400); only then is the route's body entered
get_current_user(user_id) ==
    IF user_id \notin DOMAIN users
    THEN HTTPException(404, "User not found")
    ELSE IF ~users[user_id]
    THEN HTTPException(400, "Account deactivated")
    ELSE NoResult

\* a request of any wallet or order route that is refused by the identity
\* resolution: the route's body is not entered
IdentityReject ==
    \E op \in {"credit", "debit", "get", "order", "list"},
       caller \in Customers, c \in Customers :
        /\ get_current_user(caller) # NoResult
        /\ rejected' = [op |-> op, caller |-> caller, customer_id |-> c,
                        amount |-> 1, result |-> get_current_user(caller)]
        /\ UNCHANGED <<settings, wallets, lock, reqs, balance0, orders,
                       uuid_count, order_key_unique, listed, wallet_rows,
                       audit, users, user_rows>>

\* ------------------------------------------------ wallet routes: checks
\* an authorization that guards the modifying routes only
authorize_wallet_access_ModifyOnly(customer_id, caller, op) ==
    IF customer_id # caller /\ op # "get"
    THEN HTTPException(403, UNAUTHORIZED_MODIFY_WALLET)
    ELSE NoResult

\* authorize_wallet_access / the inline check of the GET route
authorize_wallet_access(customer_id, caller, op) ==
    IF customer_id # caller
    THEN HTTPException(403, IF op = "get" THEN UNAUTHORIZED_VIEW_WALLET
                                          ELSE UNAUTHORIZED_MODIFY_WALLET)
    ELSE NoResult

\* the checks a wallet route makes before calling the service
WalletRouteCheck(op, caller, customer_id, amount) ==
    IF authorize_wallet_access(customer_id, caller, op) # NoResult
    THEN authorize_wallet_access(customer_id, caller, op)
    ELSE IF op # "get" /\ InvalidWalletAmount(amount)
    THEN HTTPException(400, INVALID_AMOUNT_MESSAGE)
    ELSE NoResult

\* a wallet request refused by its route: 403 or 400, the core is not called
WalletReject ==
    \E op \in {"credit", "debit", "get"}, caller \in Customers,
       c \in Customers, a \in WalletAmounts :
        /\ op = "get" => a = 0
        /\ get_current_user(caller) = NoResult
        /\ WalletRouteCheck(op, caller, c, a) # NoResult
        /\ rejected' = [op |-> op, caller |-> caller, customer_id |-> c,
                        amount |-> a,
                        result |-> WalletRouteCheck(op, caller, c, a)]
        /\ UNCHANGED <<settings, wallets, lock, reqs, balance0, orders, uuid_count, order_key_unique, listed, wallet_rows, audit, users, user_rows>>

\* a wallet request that passes the route's checks and enters the service
WalletStart(r) ==
    \E op \in {"credit", "debit", "get"}, caller \in Customers,
       c \in Customers, a \in WalletAmounts :
        /\ CanStart(r)
        /\ op = "get" => a = 0
        /\ get_current_user(caller) = NoResult
        /\ WalletRouteCheck(op, caller, c, a) = NoResult
        /\ reqs' = [reqs EXCEPT ![r] =
                      [IdleReq EXCEPT !.pc = "select", !.op = op,
                                      !.caller = caller, !.customer_id = c,
                                      !.amount = a]]
        /\ UNCHANGED <<settings, wallets, lock, rejected, balance0, orders, uuid_count, order_key_unique, listed, wallet_rows, audit, users, user_rows>>

\* a wallet request made once every earlier request has returned
SequentialStart(r) ==
    /\ \A q \in Reqs : reqs[q].pc \in {"idle", "done"}
    /\ WalletStart(r)

\* ------------------------------------------------- services.credit_wallet
\* SELECT ... FOR UPDATE; a missing row is replaced by a pending Wallet(0);
\* the new balance is computed and the AUDIT line written
credit_wallet_select(r) ==
    LET c == reqs[r].customer_id IN
    /\ reqs[r].pc = "select" /\ reqs[r].op = "credit"
    /\ IF HasWallet(c)
       THEN /\ RowLockAvailable(c)
            /\ lock' = [lock EXCEPT ![c] = @ \cup {r}]
            /\ reqs' = [reqs EXCEPT ![r].pc = "commit",
                                    ![r].old_balance = float(wallets[c]),
                                    ![r].is_new = FALSE]
            /\ audit' = audit \cup
                          {AuditRecord(r, "credit", float(wallets[c]))}
       ELSE /\ lock' = lock
            /\ reqs' = [reqs EXCEPT ![r].pc = "commit",
                                    ![r].old_balance = 0,
                                    ![r].is_new = TRUE]
            /\ audit' = audit \cup {AuditRecord(r, "credit", 0)}
    /\ UNCHANGED <<settings, wallets, rejected, balance0, orders, uuid_count, order_key_unique, listed, wallet_rows, users, user_rows>>

\* wallet.balance = new_balance; db.commit()  (IntegrityError -> rollback,
\* re-raised, the route answers 500)
credit_wallet_commit(r) ==
    LET c == reqs[r].customer_id
        new_balance == NewBalance("credit", reqs[r].old_balance,
                                  reqs[r].amount) IN
    /\ reqs[r].pc = "commit" /\ reqs[r].op = "credit"
    /\ IF reqs[r].is_new /\ WalletInsertConflict(c)
       THEN /\ wallets' = wallets
            /\ wallet_rows' = wallet_rows
            /\ reqs' = [reqs EXCEPT ![r].pc = "done",
                          ![r].old_balance = 0, ![r].is_new = FALSE,
                          ![r].failed = TRUE,
                          ![r].result = HTTPException(500, "Wallet credit failed")]
       ELSE /\ wallets' = [x \in DOMAIN wallets \cup {c} |->
                             IF x = c THEN new_balance ELSE wallets[x]]
            /\ wallet_rows' = IF reqs[r].is_new THEN Inserted(c)
                                                ELSE wallet_rows
            /\ reqs' = [reqs EXCEPT ![r].pc = "refresh",
                                    ![r].old_balance = 0,
                                    ![r].is_new = FALSE]
    /\ lock' = Release(c, r)
    /\ UNCHANGED <<settings, rejected, balance0, orders, uuid_count, order_key_unique, listed, audit, users, user_rows>>

\* a debit that provisions the missing wallet the way credit and read do
debit_wallet_select_provision(r) ==
    LET c == reqs[r].customer_id IN
    /\ reqs[r].pc = "select" /\ reqs[r].op = "debit"
    /\ ~HasWallet(c)
    /\ wallets' = [x \in DOMAIN wallets \cup {c} |->
                     IF x = c THEN 0 ELSE wallets[x]]
    /\ reqs' = [reqs EXCEPT ![r].pc = "close",
                  ![r].result = HTTPException(400, "Insufficient balance")]
    /\ UNCHANGED <<settings, lock, rejected, balance0, orders, uuid_count,
                   order_key_unique, listed, wallet_rows, audit, users, user_rows>>

\* -------------------------------------------------- services.debit_wallet
\* SELECT ... FOR UPDATE, then the two business rules; a ValueError leaves
\* the transaction open (no rollback) until the session is closed
debit_wallet_select(r) ==
    LET c == reqs[r].customer_id IN
    /\ reqs[r].pc = "select" /\ reqs[r].op = "debit"
    /\ IF ~HasWallet(c)
       THEN /\ lock' = lock
            /\ audit' = audit
            /\ reqs' = [reqs EXCEPT ![r].pc = "close",
                          ![r].result = HTTPException(400, "Wallet not found")]
       ELSE /\ RowLockAvailable(c)
            /\ lock' = [lock EXCEPT ![c] = @ \cup {r}]
            /\ IF InsufficientBalance(float(wallets[c]), float(reqs[r].amount))
               THEN /\ audit' = audit
                    /\ reqs' = [reqs EXCEPT ![r].pc = "close",
                                  ![r].result = HTTPException(400, "Insufficient balance")]
               ELSE /\ audit' = audit \cup
                                  {AuditRecord(r, "debit", float(wallets[c]))}
                    /\ reqs' = [reqs EXCEPT ![r].pc = "commit",
                                            ![r].old_balance = float(wallets[c])]
    /\ UNCHANGED <<settings, wallets, rejected, balance0, orders, uuid_count, order_key_unique, listed, wallet_rows, users, user_rows>>

\* a debit that adds the amount
debit_wallet_commit_add(r) ==
    LET c == reqs[r].customer_id
        new_balance == reqs[r].old_balance + reqs[r].amount IN
    /\ reqs[r].pc = "commit" /\ reqs[r].op = "debit"
    /\ wallets' = [wallets EXCEPT ![c] = new_balance]
    /\ lock' = Release(c, r)
    /\ reqs' = [reqs EXCEPT ![r].pc = "refresh", ![r].old_balance = 0]
    /\ UNCHANGED <<settings, rejected, balance0, orders, uuid_count,
                   order_key_unique, listed, wallet_rows, audit, users, user_rows>>

\* wallet.balance = new_balance; db.commit()
debit_wallet_commit(r) ==
    LET c == reqs[r].customer_id
        new_balance == NewBalance("debit", reqs[r].old_balance,
                                  reqs[r].amount) IN
    /\ reqs[r].pc = "commit" /\ reqs[r].op = "debit"
    /\ wallets' = [wallets EXCEPT ![c] = new_balance]
    /\ lock' = Release(c, r)
    /\ reqs' = [reqs EXCEPT ![r].pc = "refresh", ![r].old_balance = 0]
    /\ UNCHANGED <<settings, rejected, balance0, orders, uuid_count, order_key_unique, listed, wallet_rows, audit, users, user_rows>>

\* ------------------------------------------------------ storage failures
\* any statement of credit_wallet (the SELECT, the COMMIT, the refresh after
\* the commit) can raise: except Exception -> db.rollback(), re-raised, and
\* the route answers 500.  What was committed stays committed
credit_wallet_except(r) ==
    /\ reqs[r].op = "credit"
    /\ reqs[r].pc \in {"select", "commit", "refresh"}
    /\ lock' = ReleaseAll(r)
    /\ reqs' = [reqs EXCEPT ![r].pc = "done", ![r].failed = TRUE,
                  ![r].old_balance = 0, ![r].is_new = FALSE,
                  ![r].result = HTTPException(500, "Wallet credit failed")]
    /\ UNCHANGED <<settings, wallets, rejected, balance0, orders, uuid_count,
                   order_key_unique, listed, wallet_rows, audit, users, user_rows>>

\* the same for debit_wallet
debit_wallet_except(r) ==
    /\ reqs[r].op = "debit"
    /\ reqs[r].pc \in {"select", "commit", "refresh"}
    /\ lock' = ReleaseAll(r)
    /\ reqs' = [reqs EXCEPT ![r].pc = "done", ![r].failed = TRUE,
                  ![r].old_balance = 0, ![r].is_new = FALSE,
                  ![r].result = HTTPException(500, "Wallet debit failed")]
    /\ UNCHANGED <<settings, wallets, rejected, balance0, orders, uuid_count,
                   order_key_unique, listed, wallet_rows, audit, users, user_rows>>

\* ---------------------------------------------------- services.get_wallet
\* plain SELECT (no lock); an existing wallet is returned as read
get_wallet_select(r) ==
    LET c == reqs[r].customer_id IN
    /\ reqs[r].pc = "select" /\ reqs[r].op = "get"
    /\ IF HasWallet(c)
       THEN reqs' = [reqs EXCEPT ![r].pc = "done",
                                 ![r].result = WalletResponse(float(wallets[c]))]
       ELSE reqs' = [reqs EXCEPT ![r].pc = "commit", ![r].is_new = TRUE]
    /\ UNCHANGED <<settings, wallets, lock, rejected, balance0, orders, uuid_count, order_key_unique, listed, wallet_rows, audit, users, user_rows>>

\* a read that answers with a zero wallet it does not store
get_wallet_insert_transient(r) ==
    /\ reqs[r].pc = "commit" /\ reqs[r].op = "get"
    /\ reqs' = [reqs EXCEPT ![r].pc = "done", ![r].is_new = FALSE,
                            ![r].result = WalletResponse(0)]
    /\ UNCHANGED <<settings, wallets, lock, rejected, balance0, orders,
                   uuid_count, order_key_unique, listed, wallet_rows, audit, users, user_rows>>

\* db.add(Wallet(balance=0)); db.commit()
get_wallet_insert(r) ==
    LET c == reqs[r].customer_id IN
    /\ reqs[r].pc = "commit" /\ reqs[r].op = "get"
    /\ IF WalletInsertConflict(c)
       THEN /\ wallets' = wallets
            /\ wallet_rows' = wallet_rows
            /\ reqs' = [reqs EXCEPT ![r].pc = "done",
                          ![r].is_new = FALSE, ![r].failed = TRUE,
                          ![r].result = HTTPException(500, "Failed to retrieve wallet")]
       ELSE /\ wallets' = [x \in DOMAIN wallets \cup {c} |->
                             IF x = c THEN 0 ELSE wallets[x]]
            /\ wallet_rows' = Inserted(c)
            /\ reqs' = [reqs EXCEPT ![r].pc = "refresh", ![r].is_new = FALSE]
    /\ UNCHANGED <<settings, lock, rejected, balance0, orders, uuid_count, order_key_unique, listed, audit, users, user_rows>>

\* db.refresh(wallet) after the commit: a new SELECT of the row, then the
\* route builds the response from wallet.balance
wallet_refresh(r) ==
    LET c == reqs[r].customer_id IN
    /\ reqs[r].pc = "refresh"
    /\ reqs' = [reqs EXCEPT ![r].pc = "done",
                            ![r].result = WalletResponse(float(wallets[c]))]
    /\ UNCHANGED <<settings, wallets, lock, rejected, balance0, orders, uuid_count, order_key_unique, listed, wallet_rows, audit, users, user_rows>>

\* a session whose close leaves the open transaction and its locks behind
get_db_close_leak(r) ==
    /\ reqs[r].pc = "close"
    /\ reqs' = [reqs EXCEPT ![r].pc = "done"]
    /\ UNCHANGED <<settings, wallets, lock, rejected, balance0, orders,
                   uuid_count, order_key_unique, listed, wallet_rows, audit, users, user_rows>>

\* get_db(): finally db.close() ends the open transaction and its locks
get_db_close(r) ==
    /\ reqs[r].pc = "close"
    /\ lock' = ReleaseAll(r)
    /\ reqs' = [reqs EXCEPT ![r].pc = "done"]
    /\ UNCHANGED <<settings, wallets, rejected, balance0, orders, uuid_count, order_key_unique, listed, wallet_rows, audit, users, user_rows>>

\* ------------------------------------------- routes_orders.create_order
\* an amount check made inside the route's try block, as a plain exception
OrderRouteCheck_InTry(caller, customer_id, amount) ==
    IF customer_id # caller
    THEN HTTPException(403, "Not authorized to create orders for this customer")
    ELSE IF amount <= 0 \/ amount > MaxOrderAmount
    THEN IF settings.enable_graceful_degradation
         THEN OrderResponse(uuid_count + 2, "pending")
         ELSE HTTPException(500, "Order processing failed")
    ELSE NoResult

\* the checks of POST /orders before the service is called
OrderRouteCheck(caller, customer_id, amount) ==
    IF customer_id # caller
    THEN HTTPException(403, "Not authorized to create orders for this customer")
    ELSE IF amount <= 0 \/ amount > MaxOrderAmount
    THEN HTTPException(400, "Order amount must be between 0 and 1,000,000")
    ELSE NoResult

\* the check of GET /orders before the service is called
ListRouteCheck(caller, customer_id) ==
    IF customer_id # caller
    THEN HTTPException(403, "Not authorized to view orders for this customer")
    ELSE NoResult

\* an order request refused by its route: 403 or 400, the core is not called
OrderReject ==
    \E op \in {"order", "list"}, caller \in Customers, c \in Customers,
       a \in OrderAmounts :
        LET check == IF op = "list" THEN ListRouteCheck(caller, c)
                                    ELSE OrderRouteCheck(caller, c, a) IN
        /\ op = "list" => a = 0
        /\ get_current_user(caller) = NoResult
        /\ check # NoResult
        /\ rejected' = [op |-> op, caller |-> caller, customer_id |-> c,
                        amount |-> a, result |-> check]
        /\ UNCHANGED <<settings, wallets, lock, reqs, balance0, orders,
                       uuid_count, order_key_unique, listed, wallet_rows, audit, users, user_rows>>

\* the idempotency check runs only when the flag is set and a key was sent
ChecksIdempotency(key) ==
    settings.enable_strict_idempotency_check /\ key # NoKey

RowsWithKey(key) == {o \in orders : o.idempotency_key = key}

\* the rows the idempotency query can return for the key
IdempotencyMatches_None(key) == {}
IdempotencyMatches(key) == RowsWithKey(key)

\* flushing the INSERT violates the unique constraint, if the table has it
OrderInsertConflict(key) ==
    order_key_unique /\ key # NoKey /\ RowsWithKey(key) # {}

\* the Order table admits positive amounts only (CHECK amount > 0): the
\* INSERT of another amount raises IntegrityError when flushed
OrderAmountConflict(amount) == amount <= 0

\* the route queues a settlement task when the configured window is > 0
\* (FastAPI always injects a BackgroundTasks object)
SettlementNeeded_Always == TRUE
SettlementNeeded == settings.transaction_settlement_window > 0

\* the route's except clause answers with a synthetic order when the flag
\* is set
GracefulDegradation_Off == FALSE
GracefulDegradation == settings.enable_graceful_degradation

\* create_order_immediate has returned the row o to its caller.  The route
\* queues the settlement task and answers 201 with the row's id and status;
\* the legacy wrapper services.create_order goes on to its blocking window
Returned(r, o) ==
    IF reqs[r].op = "create_order"
    THEN IF settings.transaction_settlement_window > 0
         THEN [reqs[r] EXCEPT !.pc = "window", !.order = o.id]
         ELSE [reqs[r] EXCEPT !.pc = "done", !.order = o.id,
                              !.result = OrderResponse(o.id, o.status)]
    ELSE [reqs[r] EXCEPT !.pc = "done", !.order = o.id,
                         !.task = IF SettlementNeeded THEN "queued" ELSE "",
                         !.result = OrderResponse(o.id, o.status)]

\* an exception has left create_order_immediate.  The route answers with a
\* synthetic pending order under a new uuid (the n-th drawn from now: one
\* more is drawn for the logged tracking id) or with 500; the legacy
\* wrapper lets the exception reach its caller
Failed(r, n) ==
    IF reqs[r].op = "create_order"
    THEN [reqs[r] EXCEPT !.pc = "done", !.failed = TRUE,
                         !.result = HTTPException(500, "exception")]
    ELSE IF GracefulDegradation
    THEN [reqs[r] EXCEPT !.pc = "done", !.failed = TRUE,
                         !.result = OrderResponse(uuid_count + n, "pending")]
    ELSE [reqs[r] EXCEPT !.pc = "done", !.failed = TRUE,
                         !.result = HTTPException(500, "Order processing failed")]

\* how many uuid4() values the failing request draws after the first k
Drawn(r, k) ==
    IF reqs[r].op = "order" /\ GracefulDegradation THEN k + 2 ELSE k

\* an order submission that passes the route's checks
OrderStart(r) ==
    \E caller \in Customers, c \in Customers, a \in OrderAmounts,
       cur \in Currencies, k \in Keys :
        /\ CanStart(r)
        /\ get_current_user(caller) = NoResult
        /\ OrderRouteCheck(caller, c, a) = NoResult
        /\ reqs' = [reqs EXCEPT ![r] =
                      [IdleReq EXCEPT
                         !.pc = IF ChecksIdempotency(k) THEN "lookup" ELSE "insert",
                         !.op = "order", !.caller = caller,
                         !.customer_id = c, !.amount = a, !.currency = cur,
                         !.idempotency_key = k,
                         !.after = {q \in Reqs :
                                      /\ reqs[q].pc = "done"
                                      /\ k # NoKey
                                      /\ reqs[q].idempotency_key = k}]]
        /\ UNCHANGED <<settings, wallets, lock, rejected, balance0,
                       orders, uuid_count, order_key_unique, listed, wallet_rows, audit, users, user_rows>>

\* a call of the legacy wrapper services.create_order: no route, hence no
\* check of the caller or of the amount, in front of it
services_create_order(r) ==
    \E c \in Customers, a \in OrderAmounts, cur \in Currencies, k \in Keys :
        /\ CanStart(r)
        /\ reqs' = [reqs EXCEPT ![r] =
                      [IdleReq EXCEPT
                         !.pc = IF ChecksIdempotency(k) THEN "lookup" ELSE "insert",
                         !.op = "create_order", !.caller = c,
                         !.customer_id = c, !.amount = a, !.currency = cur,
                         !.idempotency_key = k]]
        /\ UNCHANGED <<settings, wallets, lock, rejected, balance0,
                       orders, uuid_count, order_key_unique, listed, wallet_rows, audit, users, user_rows>>

\* an idempotency hit that writes the new payload into the stored row
order_lookup_upsert(r) ==
    /\ reqs[r].pc = "lookup"
    /\ \/ /\ IdempotencyMatches(reqs[r].idempotency_key) = {}
          /\ reqs' = [reqs EXCEPT ![r].pc = "insert"]
          /\ orders' = orders
       \/ \E existing \in IdempotencyMatches(reqs[r].idempotency_key) :
            /\ reqs' = [reqs EXCEPT ![r] = Returned(r, existing)]
            /\ orders' = (orders \ {existing}) \cup
                           {[existing EXCEPT !.amount = reqs[r].amount,
                                             !.currency = reqs[r].currency]}
    /\ UNCHANGED <<settings, wallets, lock, rejected, balance0,
                   uuid_count, order_key_unique, listed, wallet_rows, audit, users, user_rows>>

\* create_order_immediate: the idempotency query; a hit is returned as is
order_lookup(r) ==
    /\ reqs[r].pc = "lookup"
    /\ \/ /\ IdempotencyMatches(reqs[r].idempotency_key) = {}
          /\ reqs' = [reqs EXCEPT ![r].pc = "insert"]
       \/ \E existing \in IdempotencyMatches(reqs[r].idempotency_key) :
            reqs' = [reqs EXCEPT ![r] = Returned(r, existing)]
    /\ UNCHANGED <<settings, wallets, lock, rejected, balance0,
                   orders, uuid_count, order_key_unique, listed, wallet_rows, audit, users, user_rows>>

\* create_order_immediate: Order(id=uuid4(), ..., status="created");
\* db.add; db.commit.  A constraint violation leaves as an exception
order_insert(r) ==
    /\ reqs[r].pc = "insert"
    /\ LET rivals == {q \in Reqs \ {r} :
                        /\ reqs[q].pc = "insert"
                        /\ reqs[q].idempotency_key = reqs[r].idempotency_key
                        /\ ChecksIdempotency(reqs[r].idempotency_key)}
       IN
       IF \/ OrderInsertConflict(reqs[r].idempotency_key)
          \/ OrderAmountConflict(reqs[r].amount)
       THEN /\ orders' = orders
            /\ uuid_count' = uuid_count + Drawn(r, 1)
            /\ reqs' = [reqs EXCEPT
                          ![r] = [Failed(r, 3) EXCEPT !.rivals = rivals]]
       ELSE /\ uuid_count' = uuid_count + 1
            /\ orders' = orders \cup
                 {[id |-> uuid_count + 1,
                   customer_id |-> reqs[r].customer_id,
                   amount |-> reqs[r].amount,
                   currency |-> reqs[r].currency,
                   idempotency_key |-> reqs[r].idempotency_key,
                   status |-> "created"]}
            /\ reqs' = [reqs EXCEPT ![r].pc = "refresh_order",
                                    ![r].rivals = rivals,
                                    ![r].order = uuid_count + 1]
    /\ UNCHANGED <<settings, wallets, lock, rejected, balance0,
                   order_key_unique, listed, wallet_rows, audit, users, user_rows>>

\* db.refresh(order), then the order is returned
order_refresh(r) ==
    /\ reqs[r].pc = "refresh_order"
    /\ \E o \in orders :
        /\ o.id = reqs[r].order
        /\ reqs' = [reqs EXCEPT ![r] = Returned(r, o)]
    /\ UNCHANGED <<settings, wallets, lock, rejected, balance0,
                   orders, uuid_count, order_key_unique, listed, wallet_rows, audit, users, user_rows>>

\* any statement of create_order_immediate (the idempotency query, the
\* COMMIT of the INSERT, the refresh after the commit) can raise; nothing is
\* rolled back explicitly, the session's close drops what is uncommitted.
\* At the refresh the Order's uuid has been drawn and the row is committed
order_except(r) ==
    /\ reqs[r].pc \in {"lookup", "insert", "refresh_order"}
    /\ LET k == IF reqs[r].pc = "insert" THEN 1 ELSE 0 IN
       /\ uuid_count' = uuid_count + Drawn(r, k)
       /\ reqs' = [reqs EXCEPT ![r] = Failed(r, k + 2)]
    /\ UNCHANGED <<settings, wallets, lock, rejected, balance0, orders,
                   order_key_unique, listed, wallet_rows, audit, users, user_rows>>

\* services.create_order: the synchronous settlement window, one
\* time.sleep(poll_interval) per step, then the order is returned.  The
\* window is counted in poll intervals
services_create_order_window(r) ==
    /\ reqs[r].pc = "window"
    /\ IF reqs[r].elapsed < settings.transaction_settlement_window
       THEN reqs' = [reqs EXCEPT ![r].elapsed = @ + 1]
       ELSE \E o \in orders :
              /\ o.id = reqs[r].order
              /\ reqs' = [reqs EXCEPT ![r].pc = "done",
                            ![r].result = OrderResponse(o.id, o.status)]
    /\ UNCHANGED <<settings, wallets, lock, rejected, balance0,
                   orders, uuid_count, order_key_unique, listed, wallet_rows, audit, users, user_rows>>

\* ------------------------------------ services.handle_settlement_window
\* BackgroundTasks runs the queued task after the response has been sent
settlement_start(r) ==
    /\ reqs[r].pc = "done" /\ reqs[r].task = "queued"
    /\ reqs' = [reqs EXCEPT ![r].task = "running", ![r].elapsed = 0]
    /\ UNCHANGED <<settings, wallets, lock, rejected, balance0,
                   orders, uuid_count, order_key_unique, listed, wallet_rows, audit, users, user_rows>>

\* while elapsed < window_seconds: await asyncio.sleep(poll_interval)
settlement_poll(r) ==
    /\ reqs[r].task = "running"
    /\ reqs[r].elapsed < settings.transaction_settlement_window
    /\ reqs' = [reqs EXCEPT ![r].elapsed = @ + 1]
    /\ UNCHANGED <<settings, wallets, lock, rejected, balance0,
                   orders, uuid_count, order_key_unique, listed, wallet_rows, audit, users, user_rows>>

\* the window has elapsed: the task logs and ends; the status update is
\* only a comment in the code, no row is touched
settlement_complete(r) ==
    /\ reqs[r].task = "running"
    /\ reqs[r].elapsed >= settings.transaction_settlement_window
    /\ reqs' = [reqs EXCEPT ![r].task = "completed", ![r].elapsed = 0]
    /\ UNCHANGED <<settings, wallets, lock, rejected, balance0,
                   orders, uuid_count, order_key_unique, listed, wallet_rows, audit, users, user_rows>>

\* a listing that does not filter on the customer
list_orders_all ==
    \E caller \in Customers, c \in Customers :
        /\ get_current_user(caller) = NoResult
        /\ ListRouteCheck(caller, c) = NoResult
        /\ listed' = OrderList(caller, c, orders)
        /\ UNCHANGED <<settings, wallets, lock, reqs, rejected, balance0,
                       orders, uuid_count, order_key_unique, wallet_rows,
                       audit, users, user_rows>>

\* ------------------------------------ services.get_orders_by_customer
\* a listing that writes a row of its own before it reads
list_orders_insert ==
    \E caller \in Customers, c \in Customers :
        /\ get_current_user(caller) = NoResult
        /\ ListRouteCheck(caller, c) = NoResult
        /\ orders' = orders \cup
             {[id |-> 0, customer_id |-> c, amount |-> 1, currency |-> "INR",
               idempotency_key |-> NoKey, status |-> "created"]}
        /\ listed' = OrderList(caller, c, {o \in orders' : o.customer_id = c})
        /\ UNCHANGED <<settings, wallets, lock, reqs, rejected, balance0,
                       uuid_count, order_key_unique, wallet_rows, audit, users, user_rows>>

\* GET /orders for the caller's own id: db.expunge_all() drops whatever the
\* session holds, then one SELECT of the customer's rows
list_orders ==
    \E caller \in Customers, c \in Customers :
        /\ get_current_user(caller) = NoResult
        /\ ListRouteCheck(caller, c) = NoResult
        /\ listed' = OrderList(caller, c, {o \in orders : o.customer_id = c})
        /\ UNCHANGED <<settings, wallets, lock, reqs, rejected, balance0,
                       orders, uuid_count, order_key_unique, wallet_rows, audit, users, user_rows>>

\* -------------------------------------------------- services.create_user
\* POST /auth/register (and POST /users) answer 201 with the stored user
UserResponse == [NoResult EXCEPT !.status = 201]

\* a registration enters create_user: the route requires no identity
RegisterStart(r) ==
    \E u \in Customers, e \in Emails :
        /\ CanStart(r)
        /\ reqs' = [reqs EXCEPT ![r] =
                      [IdleReq EXCEPT !.pc = "select", !.op = "register",
                                      !.user_id = u, !.email = e]]
        /\ UNCHANGED <<settings, wallets, lock, rejected, balance0, orders,
                       uuid_count, order_key_unique, listed, wallet_rows,
                       audit, users, user_rows>>

\* the rows the duplicate check of create_user finds
ExistingUsers(user_id, email) ==
    {x \in user_rows : x.user_id = user_id \/ x.email = email}

\* the unique constraints of the User table on user_id and on email
UserInsertConflict_None(user_id, email) == FALSE
UserInsertConflict(user_id, email) ==
    \E x \in user_rows : x.user_id = user_id \/ x.email = email

\* what get_user finds once the row of user_id is stored
Registered(user_id) ==
    [u \in DOMAIN users \cup {user_id} |->
        IF u \in DOMAIN users THEN users[u] ELSE TRUE]

\* the query for an existing user with the same user_id or email: a hit
\* is answered 400, nothing is written
create_user_select(r) ==
    /\ reqs[r].op = "register" /\ reqs[r].pc = "select"
    /\ IF ExistingUsers(reqs[r].user_id, reqs[r].email) # {}
       THEN reqs' = [reqs EXCEPT ![r].pc = "close",
                       ![r].result = HTTPException(400,
                                       "User ID or Email already registered")]
       ELSE reqs' = [reqs EXCEPT ![r].pc = "commit"]
    /\ UNCHANGED <<settings, wallets, lock, rejected, balance0, orders,
                   uuid_count, order_key_unique, listed, wallet_rows, audit,
                   users, user_rows>>

\* a create_user that does not catch the IntegrityError of the commit
create_user_commit_unhandled(r) ==
    /\ reqs[r].op = "register" /\ reqs[r].pc = "commit"
    /\ IF UserInsertConflict(reqs[r].user_id, reqs[r].email)
       THEN /\ reqs' = [reqs EXCEPT ![r].pc = "close",
                          ![r].result = HTTPException(500,
                                          "Internal Server Error")]
            /\ UNCHANGED <<users, user_rows>>
       ELSE /\ user_rows' = user_rows \cup
                  {[user_id |-> reqs[r].user_id, email |-> reqs[r].email,
                    by |-> r]}
            /\ users' = Registered(reqs[r].user_id)
            /\ reqs' = [reqs EXCEPT ![r].pc = "close",
                                    ![r].result = UserResponse]
    /\ UNCHANGED <<settings, wallets, lock, rejected, balance0, orders,
                   uuid_count, order_key_unique, listed, wallet_rows, audit>>

\* db.add, db.commit, db.refresh: the row is stored with is_active=True and
\* answered 201; an IntegrityError is rolled back and answered 400
create_user_commit(r) ==
    /\ reqs[r].op = "register" /\ reqs[r].pc = "commit"
    /\ IF UserInsertConflict(reqs[r].user_id, reqs[r].email)
       THEN /\ reqs' = [reqs EXCEPT ![r].pc = "close",
                          ![r].result = HTTPException(400,
                                     "Registration failed - duplicate entry")]
            /\ UNCHANGED <<users, user_rows>>
       ELSE /\ user_rows' = user_rows \cup
                  {[user_id |-> reqs[r].user_id, email |-> reqs[r].email,
                    by |-> r]}
            /\ users' = Registered(reqs[r].user_id)
            /\ reqs' = [reqs EXCEPT ![r].pc = "close",
                                    ![r].result = UserResponse]
    /\ UNCHANGED <<settings, wallets, lock, rejected, balance0, orders,
                   uuid_count, order_key_unique, listed, wallet_rows, audit>>

\* ------------------------------------------------------- specifications
WalletSteps ==
    \/ \E r \in Reqs : credit_wallet_select(r)
    \/ \E r \in Reqs : credit_wallet_commit(r)
    \/ \E r \in Reqs : debit_wallet_select(r)
    \/ \E r \in Reqs : debit_wallet_commit(r)
    \/ \E r \in Reqs : get_wallet_select(r)
    \/ \E r \in Reqs : get_wallet_insert(r)
    \/ \E r \in Reqs : wallet_refresh(r)
    \/ \E r \in Reqs : get_db_close(r)

\* concurrent wallet requests that reach the service
Next ==
    \/ \E r \in Reqs : WalletStart(r)
    \/ WalletSteps

Spec == Init /\ [][Next]_vars

\* the wallet routes' own refusals, next to one request in the service
RouteNext ==
    \/ WalletReject
    \/ WalletStart(1)
    \/ WalletSteps

SpecWalletRoute == Init /\ [][RouteNext]_vars

\* concurrent order submissions that reach the service
OrderNext ==
    \/ \E r \in Reqs : OrderStart(r)
    \/ \E r \in Reqs : order_lookup(r)
    \/ \E r \in Reqs : order_insert(r)
    \/ \E r \in Reqs : order_refresh(r)

SpecOrder == OrderInit /\ [][OrderNext]_vars

\* two order creations, each through the route or through the legacy
\* wrapper, with the settlement tasks the route queues
SettlementNext ==
    \/ OrderStart(1)
    \/ OrderStart(2)
    \/ services_create_order(1)
    \/ services_create_order(2)
    \/ \E r \in Reqs : order_lookup(r)
    \/ \E r \in Reqs : order_insert(r)
    \/ \E r \in Reqs : order_refresh(r)
    \/ \E r \in Reqs : services_create_order_window(r)
    \/ \E r \in Reqs : settlement_start(r)
    \/ \E r \in Reqs : settlement_poll(r)
    \/ \E r \in Reqs : settlement_complete(r)

SpecSettlement == SettlementInit /\ [][SettlementNext]_vars

\* order submissions next to listings of the stored orders
ReadNext ==
    \/ \E r \in Reqs : OrderStart(r)
    \/ \E r \in Reqs : order_lookup(r)
    \/ \E r \in Reqs : order_insert(r)
    \/ \E r \in Reqs : order_refresh(r)
    \/ list_orders

SpecOrderRead == ReadInit /\ [][ReadNext]_vars

\* the refusals of all routes, next to one request in the service (a
\* wallet request or an order submission) and to listings
ApiNext ==
    \/ WalletReject
    \/ OrderReject
    \/ WalletStart(1)
    \/ OrderStart(1)
    \/ WalletSteps
    \/ \E r \in Reqs : order_lookup(r)
    \/ \E r \in Reqs : order_insert(r)
    \/ \E r \in Reqs : order_refresh(r)
    \/ list_orders

SpecApi == ReadInit /\ [][ApiNext]_vars

\* the same routes behind the identity resolution, for any User table
IdentityNext ==
    \/ IdentityReject
    \/ ApiNext

SpecIdentity == IdentityInit /\ [][IdentityNext]_vars

\* two order submissions whose statements can fail
OrderFailureNext ==
    \/ OrderStart(1)
    \/ OrderStart(2)
    \/ \E r \in Reqs : order_lookup(r)
    \/ \E r \in Reqs : order_insert(r)
    \/ \E r \in Reqs : order_refresh(r)
    \/ \E r \in Reqs : order_except(r)

SpecOrderFailure == FailureInit /\ [][OrderFailureNext]_vars

\* wallet requests whose statements can fail
WalletFailureNext ==
    \/ Next
    \/ \E r \in Reqs : credit_wallet_except(r)
    \/ \E r \in Reqs : debit_wallet_except(r)

SpecWalletFailure == Init /\ [][WalletFailureNext]_vars

\* the refusals of the order routes, next to one submission in the service
\* whose statements can fail
OrderRouteNext ==
    \/ OrderReject
    \/ OrderStart(1)
    \/ \E r \in Reqs : order_lookup(r)
    \/ \E r \in Reqs : order_insert(r)
    \/ \E r \in Reqs : order_refresh(r)
    \/ \E r \in Reqs : order_except(r)

SpecOrderRoute == FailureInit /\ [][OrderRouteNext]_vars

\* listings next to the refusals of the order routes and to one submission
\* in the service whose statements can fail
ListingNext ==
    \/ OrderRouteNext
    \/ list_orders

SpecListing == FailureInit /\ [][ListingNext]_vars

\* the life of the stored orders: two requests (order submissions, or a
\* submission and a wallet request) with failures, the settlement tasks
\* and listings
LifecycleNext ==
    \/ OrderStart(1)
    \/ OrderStart(2)
    \/ WalletStart(2)
    \/ \E r \in Reqs : order_lookup(r)
    \/ \E r \in Reqs : order_insert(r)
    \/ \E r \in Reqs : order_refresh(r)
    \/ \E r \in Reqs : order_except(r)
    \/ \E r \in Reqs : settlement_start(r)
    \/ \E r \in Reqs : settlement_poll(r)
    \/ \E r \in Reqs : settlement_complete(r)
    \/ list_orders
    \/ WalletSteps

SpecLifecycle == LifecycleInit /\ [][LifecycleNext]_vars

\* every route at work next to the wallets: order submissions, settlement
\* tasks, listings and wallet requests on both customers, with storage
\* failures in the order and in the wallet services
FrameNext ==
    \/ LifecycleNext
    \/ WalletStart(1)
    \/ \E r \in Reqs : credit_wallet_except(r)
    \/ \E r \in Reqs : debit_wallet_except(r)

SpecFrame == LifecycleInit /\ [][FrameNext]_vars

\* wallet requests made one after the other
SequentialNext ==
    \/ \E r \in Reqs : SequentialStart(r)
    \/ WalletSteps

SpecSequential == Init /\ [][SequentialNext]_vars

\* two concurrent wallet requests that reach the service
WalletPairNext ==
    \/ WalletStart(1)
    \/ WalletStart(2)
    \/ WalletSteps

SpecWalletPair == Init /\ [][WalletPairNext]_vars

\* two wallet requests, every exit of the service included: answers,
\* business-rule refusals and storage failures
WalletExitNext ==
    \/ WalletStart(1)
    \/ WalletStart(2)
    \/ WalletSteps
    \/ \E r \in Reqs : credit_wallet_except(r)
    \/ \E r \in Reqs : debit_wallet_except(r)

SpecWalletExit == Init /\ [][WalletExitNext]_vars

\* registrations only, concurrently
RegisterNext ==
    \/ \E r \in Reqs : RegisterStart(r)
    \/ \E r \in Reqs : create_user_select(r)
    \/ \E r \in Reqs : create_user_commit(r)
    \/ \E r \in Reqs : get_db_close(r)

SpecRegister == RegisterInit /\ [][RegisterNext]_vars

\* two wallet requests, one after the other, on a large balance
PrecisionNext ==
    \/ SequentialStart(1)
    \/ SequentialStart(2)
    \/ WalletSteps

SpecPrecision == PrecisionInit /\ [][PrecisionNext]_vars

TypeOK ==
    /\ DOMAIN wallets \subseteq Customers
    /\ \A c \in Customers : lock[c] \subseteq Reqs

\* ------------------------------------------------------ derived notions
Started == {r \in Reqs : reqs[r].pc # "idle"}
Done == {r \in Reqs : reqs[r].pc = "done"}
Answered(r) == reqs[r].result # NoResult
Succeeded(r) == reqs[r].result.status = 200
AllDone == Started # {} /\ Started = Done

InitialBalance(c) == IF c \in DOMAIN balance0 THEN balance0[c] ELSE 0
StoredBalance(c) == IF HasWallet(c) THEN wallets[c] ELSE 0

Min(a, b) == IF a < b THEN a ELSE b

RECURSIVE SumAmounts(_)
SumAmounts(S) ==
    IF S = {} THEN 0
    ELSE LET r == CHOOSE x \in S : TRUE
         IN reqs[r].amount + SumAmounts(S \ {r})

SuccessfulOps(c, op) ==
    {r \in Done : reqs[r].customer_id = c /\ reqs[r].op = op /\ Succeeded(r)}

WalletNotFound == HTTPException(400, "Wallet not found")
InsufficientBalanceError == HTTPException(400, "Insufficient balance")
InvalidAmount == HTTPException(400, INVALID_AMOUNT_MESSAGE)

\* ---------------------------------------------------------------- C1
\* C1: every stored wallet balance is >= 0 in every reachable state, and
\* two debits on one customer never both stand past the sufficient-funds
\* check with amounts whose sum exceeds the stored balance.
C1_BalanceNeverNegative ==
    /\ \A c \in DOMAIN wallets : wallets[c] >= 0
    /\ \A r1, r2 \in Reqs :
         ( /\ r1 # r2
           /\ reqs[r1].op = "debit" /\ reqs[r2].op = "debit"
           /\ reqs[r1].customer_id = reqs[r2].customer_id
           /\ reqs[r1].pc = "commit" /\ reqs[r2].pc = "commit" )
         => reqs[r1].amount + reqs[r2].amount
              <= wallets[reqs[r1].customer_id]

\* a debit holds the row past the check while a second debit, which the
\* balance cannot also cover, waits for the row
C1_Witness ==
    \E r1, r2 \in Reqs :
        /\ reqs[r1].op = "debit" /\ reqs[r1].pc = "commit"
        /\ reqs[r2].op = "debit" /\ reqs[r2].pc = "select"
        /\ reqs[r1].customer_id = reqs[r2].customer_id
        /\ reqs[r2].amount <= wallets[reqs[r1].customer_id]
        /\ reqs[r1].amount + reqs[r2].amount > wallets[reqs[r1].customer_id]

\* ---------------------------------------------------------------- C2
Perms(S) ==
    {f \in [1..Cardinality(S) -> S] :
        \A i, j \in 1..Cardinality(S) : f[i] = f[j] => i = j}

Delta(r) == IF reqs[r].op = "credit" THEN reqs[r].amount ELSE 0 - reqs[r].amount

RECURSIVE BalanceAfter(_, _, _)
BalanceAfter(f, i, start) ==
    IF i = 0 THEN start ELSE BalanceAfter(f, i - 1, start) + Delta(f[i])

\* the successful credits and debits on c, replayed one after the other in
\* the order f, return exactly the balances the callers were given
SequentialRun(f, c) ==
    \A i \in DOMAIN f :
        /\ reqs[f[i]].result.balance = BalanceAfter(f, i, InitialBalance(c))
        /\ BalanceAfter(f, i, InitialBalance(c)) >= 0

NoLostUpdate(c) ==
    StoredBalance(c) = InitialBalance(c)
                         + SumAmounts(SuccessfulOps(c, "credit"))
                         - SumAmounts(SuccessfulOps(c, "debit"))

ReturnsSerializable(c) ==
    \E f \in Perms(SuccessfulOps(c, "credit") \cup SuccessfulOps(c, "debit")) :
        SequentialRun(f, c)

\* C2: once the concurrent credits and debits on a customer have all
\* returned, the stored balance is the initial balance plus the successful
\* credits minus the successful debits, and the balances returned to the
\* callers are those of one sequential ordering of the calls.
C2_SerialOutcome ==
    AllDone => \A c \in Customers : NoLostUpdate(c) /\ ReturnsSerializable(c)

\* the part of C2 the code keeps: no update is lost
C2_NoLostUpdate ==
    AllDone => \A c \in Customers : NoLostUpdate(c)

\* ---------------------------------------------------------------- C3
SameDebits(c, d) ==
    /\ Started # {}
    /\ \A r \in Started :
         reqs[r].op = "debit" /\ reqs[r].customer_id = c /\ reqs[r].amount = d

\* C3: N concurrent debits of d against a wallet holding B, nothing else
\* touching it: exactly min(N, B div d) succeed, the others fail, and the
\* final balance is B - d * successes.
C3_ConcurrentDebits ==
    \A c \in DOMAIN balance0 : \A d \in 1..MaxAmt :
        (SameDebits(c, d) /\ AllDone) =>
            LET N == Cardinality(Started)
                ok == {r \in Started : Succeeded(r)}
                failed == {r \in Started : reqs[r].result.status = 400}
            IN /\ Cardinality(ok) = Min(N, balance0[c] \div d)
               /\ ok \cup failed = Started
               /\ Cardinality(ok) + Cardinality(failed) = N
               /\ wallets[c] = balance0[c] - d * Cardinality(ok)

\* every slot ran the same debit; some succeeded and some were refused
C3_Witness ==
    \E c \in DOMAIN balance0 : \E d \in 1..MaxAmt :
        /\ SameDebits(c, d) /\ AllDone /\ Started = Reqs
        /\ \E r \in Reqs : Succeeded(r)
        /\ \E r \in Reqs : reqs[r].result = InsufficientBalanceError

\* ---------------------------------------------------------------- C4
\* a credit or debit whose amount is <= 0, asked by the wallet's owner, has
\* just been refused
RefusedNonPositive ==
    /\ rejected' # rejected
    /\ rejected'.op \in {"credit", "debit"}
    /\ rejected'.caller = rejected'.customer_id
    /\ rejected'.amount <= 0

\* C4: a credit or debit of an amount <= 0 fails with InvalidAmount (400)
\* and leaves every wallet as it was; no such amount ever reaches the
\* service.
C4_NonPositiveAmountRefused ==
    /\ [][RefusedNonPositive =>
            rejected'.result = InvalidAmount /\ wallets' = wallets]_vars
    /\ [](\A r \in Started :
            reqs[r].op \in {"credit", "debit"} => reqs[r].amount > 0)

C4_Witness ==
    /\ rejected.op = "debit"
    /\ rejected.amount = 0
    /\ rejected.result = InvalidAmount
    /\ HasWallet(rejected.customer_id)
    /\ wallets[rejected.customer_id] > 0
    /\ \E r \in Reqs : reqs[r].op = "credit" /\ reqs[r].pc = "commit"

\* ---------------------------------------------------------------- C5
\* request r, a debit, runs its SELECT in this step
DebitSelects(r) ==
    reqs[r].op = "debit" /\ reqs[r].pc = "select" /\ reqs'[r].pc # "select"

\* request r, a refused debit, ends in this step
RefusedDebitEnds(r) ==
    reqs[r].op = "debit" /\ reqs[r].pc = "close" /\ reqs'[r].pc # "close"

NeverCredited(c) ==
    /\ c \notin DOMAIN balance0
    /\ \A q \in Reqs : ~(reqs[q].op = "credit" /\ reqs[q].customer_id = c)

\* C6: a debit of a positive amount by a customer who has never been
\* credited is answered 400 with detail "Insufficient wallet balance".
C6_NeverCreditedDebitDetail ==
    \A r \in Reqs :
        ( /\ reqs[r].op = "debit" /\ Answered(r)
          /\ NeverCredited(reqs[r].customer_id) )
        => /\ reqs[r].result.status = 400
           /\ reqs[r].result.detail = "Insufficient wallet balance"

\* ---------------------------------------------------------------- C7
\* C7: a debit of a > 0 against an existing wallet whose balance is < a
\* fails with InsufficientBalance (400) and the stored balance stays as it
\* was, at the refusal and when the refused request ends.
C7_InsufficientBalanceNoDebit ==
    [][\A r \in Reqs :
        /\ ( /\ DebitSelects(r)
             /\ HasWallet(reqs[r].customer_id)
             /\ wallets[reqs[r].customer_id] < reqs[r].amount ) =>
              /\ reqs'[r].result = InsufficientBalanceError
              /\ reqs'[r].pc = "close"
              /\ wallets' = wallets
        /\ (RefusedDebitEnds(r) /\ reqs[r].result = InsufficientBalanceError) =>
              /\ reqs'[r].result = InsufficientBalanceError
              /\ wallets' = wallets]_vars

C7_Witness ==
    \E r \in Done :
        /\ reqs[r].op = "debit"
        /\ reqs[r].result = InsufficientBalanceError
        /\ HasWallet(reqs[r].customer_id)
        /\ wallets[reqs[r].customer_id] > 0
        /\ wallets[reqs[r].customer_id] < reqs[r].amount

\* ---------------------------------------------------------------- C8
\* r2 was submitted after r1 had been answered, with the same key
Resubmission(r1, r2) ==
    /\ reqs[r1].op = "order" /\ reqs[r2].op = "order"
    /\ r1 \in reqs[r2].after
    /\ reqs[r1].idempotency_key # NoKey
    /\ reqs[r2].idempotency_key = reqs[r1].idempotency_key

\* no third submission carries the key of r1 and r2
OnlySubmissions(r1, r2) ==
    \A q \in Reqs \ {r1, r2} :
        reqs[q].idempotency_key # reqs[r1].idempotency_key

\* C8: with idempotency checking enabled, an order submitted and then
\* submitted again with the same key: the second call returns the id and
\* status of the first, one row has the key, and that row keeps the first
\* submission's fields.
C8_SequentialResubmission ==
    \A r1, r2 \in Done :
        ( /\ settings.enable_strict_idempotency_check
          /\ Resubmission(r1, r2)
          /\ OnlySubmissions(r1, r2) )
        => /\ reqs[r1].result.status = 201
           /\ reqs[r2].result = reqs[r1].result
           /\ RowsWithKey(reqs[r1].idempotency_key) =
                {[id |-> reqs[r1].result.order_id,
                  customer_id |-> reqs[r1].customer_id,
                  amount |-> reqs[r1].amount,
                  currency |-> reqs[r1].currency,
                  idempotency_key |-> reqs[r1].idempotency_key,
                  status |-> reqs[r1].result.order_status]}

\* the second submission differed in amount and currency
C8_Witness ==
    \E r1, r2 \in Done :
        /\ settings.enable_strict_idempotency_check
        /\ Resubmission(r1, r2)
        /\ reqs[r2].amount # reqs[r1].amount
        /\ reqs[r2].currency # reqs[r1].currency
        /\ reqs[r2].result.order_id = reqs[r1].result.order_id
        /\ Cardinality(orders) = 1

\* ---------------------------------------------------------------- C9
\* C9: with idempotency checking enabled, two submissions with the same
\* key that both ran the key lookup before either committed its insert
\* leave at most one row with the key, and both callers receive the same
\* order id.
C9_ConcurrentSameKey ==
    \A r \in Done : \A q \in reqs[r].rivals :
        q \in Done =>
            /\ Cardinality(RowsWithKey(reqs[r].idempotency_key)) <= 1
            /\ reqs[r].result.status = 201
            /\ reqs[q].result.status = 201
            /\ reqs[q].result.order_id = reqs[r].result.order_id

\* --------------------------------------------------------------- C10
SamePayload(r1, r2) ==
    /\ reqs[r1].customer_id = reqs[r2].customer_id
    /\ reqs[r1].amount = reqs[r2].amount
    /\ reqs[r1].currency = reqs[r2].currency
    /\ reqs[r1].idempotency_key = reqs[r2].idempotency_key

\* C10: under the default configuration, two sequential POST /orders with
\* the same payload and idempotency_key both return 201 and carry the same
\* order_id.
C10_DefaultConfigResubmission ==
    \A r1, r2 \in Done :
        ( /\ settings = DefaultSettings
          /\ Resubmission(r1, r2)
          /\ SamePayload(r1, r2) )
        => /\ reqs[r1].result.status = 201
           /\ reqs[r2].result.status = 201
           /\ reqs[r2].result.order_id = reqs[r1].result.order_id
\* C11: a submission with an amount outside (0, 1,000,000] adds no row:
\* every stored order has 0 < amount <= 1,000,000, whichever way the order
\* was created (POST /orders or the service's own entry point)
OutOfBounds(amount) == amount <= 0 \/ amount > MaxOrderAmount

C12_ListIsPureRead ==
    [][listed' # listed =>
         /\ listed'.status = 200
         /\ UNCHANGED <<orders, wallets, lock, reqs, uuid_count, audit, users, user_rows>>]_vars

\* a listing that returned a stored row while a submission was in flight
C12_Witness ==
    /\ listed.status = 200
    /\ listed.orders # {}
    /\ listed.orders \subseteq orders
    /\ \E r \in Reqs : reqs[r].pc = "insert"
    /\ wallets # << >>

\* C13: a wallet credit, debit or read, an order submission or an order
\* listing whose customer_id is not the caller's is answered 403 by its
\* route and changes nothing; no such request ever reaches the service
C13_ForeignCustomerRefused ==
    /\ [][(rejected' # rejected /\ rejected'.caller # rejected'.customer_id)
            => /\ rejected'.result.status = 403
               /\ UNCHANGED <<wallets, orders, lock, reqs, listed,
                              uuid_count, audit, users, user_rows>>]_vars
    /\ [](\A r \in Reqs :
            reqs[r].pc # "idle" => reqs[r].caller = reqs[r].customer_id)
    /\ [](listed.status = 200 => listed.caller = listed.customer_id)

\* an order submission for another customer refused while a row of that
\* customer is stored and listed, next to a funded wallet
C13_Witness ==
    /\ rejected.op = "order"
    /\ rejected.caller # rejected.customer_id
    /\ rejected.result.status = 403
    /\ \E o \in orders : o.customer_id = rejected.customer_id
    /\ listed.orders # {}
    /\ \E c \in Customers : HasWallet(c) /\ wallets[c] > 0

\* C14: with the idempotency check enabled a key identifies one order for
\* all customers: at most one row carries the key, and any two answered
\* submissions with the key, whoever sent them, got the same order
SubmissionsWithKey(k) ==
    {r \in Done : reqs[r].op = "order" /\ reqs[r].idempotency_key = k}

C14_GlobalKeyUniqueness ==
    settings.enable_strict_idempotency_check =>
      \A k \in Keys \ {NoKey} :
        /\ Cardinality(RowsWithKey(k)) <= 1
        /\ \A r1, r2 \in SubmissionsWithKey(k) :
             /\ reqs[r1].result.status = 201
             /\ reqs[r1].result.order_id = reqs[r2].result.order_id

\* C15: with graceful degradation enabled, a submission that passed the
\* route's validation and then failed in the service is answered 201 with
\* status pending and an id that no stored order and no other answer
\* carries, never with 500
OrderIds == {o.id : o \in orders}

C15_DegradedAnswer ==
    settings.enable_graceful_degradation =>
      \A r \in Done :
        (reqs[r].op = "order" /\ reqs[r].failed) =>
          /\ reqs[r].result.status = 201
          /\ reqs[r].result.order_status = "pending"
          /\ reqs[r].result.order_id \notin OrderIds
          /\ \A q \in Done \ {r} :
               reqs[q].result.order_id # reqs[r].result.order_id

\* a submission that failed on the key's unique constraint and one that
\* failed after its row was committed, both answered pending
C15_Witness ==
    /\ settings.enable_graceful_degradation
    /\ \E r, q \in Done :
         /\ r # q
         /\ reqs[r].failed /\ reqs[r].order = 0
         /\ reqs[r].result.order_status = "pending"
         /\ reqs[q].failed /\ reqs[q].order \in OrderIds
         /\ reqs[q].result.order_status = "pending"

\* C16: a wallet credit, a wallet debit or (degradation disabled) an order
\* submission that hits a storage failure is answered 500 and leaves no
\* change behind: once all requests have returned, the balances are the
\* initial ones plus the successful credits minus the successful debits,
\* and every stored order belongs to a submission that did not fail
FailedRequests == {r \in Done : reqs[r].failed}

C16_FailureRollsBack ==
    /\ \A r \in FailedRequests :
         (reqs[r].op = "order" => ~settings.enable_graceful_degradation)
           => reqs[r].result.status = 500
    /\ AllDone => \A c \in Customers : NoLostUpdate(c)
    /\ (AllDone /\ ~settings.enable_graceful_degradation) =>
         \A o \in orders :
           \E r \in Done \ FailedRequests : reqs[r].order = o.id

\* C17: an order submission with an amount outside the bounds, or for
\* another customer, is answered with a client error (400, 403) whatever
\* the degradation flag: it is never answered with a synthetic pending
\* order, never stored, and never reaches the service
C17_InvalidAmountIsClientError ==
    /\ [][(rejected' # rejected /\ rejected'.op = "order")
            => /\ rejected'.result.status \in {400, 403}
               /\ rejected'.result.order_status # "pending"
               /\ (rejected'.caller = rejected'.customer_id
                     => rejected'.result.status = 400)
               /\ orders' = orders]_vars
    /\ [](\A r \in Started :
            reqs[r].op = "order" =>
              /\ ~OutOfBounds(reqs[r].amount)
              /\ reqs[r].caller = reqs[r].customer_id)

\* with degradation on, an out-of-bounds amount was refused with 400 in a
\* run where a failing submission was answered pending
C17_Witness ==
    /\ settings.enable_graceful_degradation
    /\ rejected.op = "order"
    /\ OutOfBounds(rejected.amount)
    /\ rejected.result.status = 400
    /\ \E r \in Done : reqs[r].failed /\ reqs[r].result.order_status = "pending"

\* C18: a settlement window for an order starts only once the order's row
\* is committed, and the request that created the order is answered
\* without waiting for the window, on the route and on the legacy wrapper
InWindow(r) == reqs[r].pc = "window" \/ reqs[r].task \in {"running", "completed"}

C18_SettlementAfterCommitNoWait ==
    \A r \in Reqs :
      /\ (InWindow(r) \/ reqs[r].task = "queued") => reqs[r].order \in OrderIds
      /\ InWindow(r) => Answered(r)

\* C19: a settlement is scheduled for an order creation exactly when the
\* configured window is > 0: with a window of 0 or below no task is ever
\* queued or run and no creation waits; with a window > 0 every answered
\* creation of the route has its task and every return of the legacy
\* wrapper has slept through the window
Scheduled(r) ==
    reqs[r].task # "" \/ reqs[r].pc = "window" \/ reqs[r].elapsed > 0

C19_ScheduledIffWindow ==
    \A r \in Reqs :
      /\ Scheduled(r) => settings.transaction_settlement_window > 0
      /\ (r \in Done /\ ~reqs[r].failed
             /\ settings.transaction_settlement_window > 0) =>
           IF reqs[r].op = "order"
           THEN reqs[r].task \in {"queued", "running", "completed"}
           ELSE reqs[r].elapsed >= settings.transaction_settlement_window

\* a window > 0: the task of a route submission has completed and a call of
\* the wrapper has returned after its window
C19_Witness ==
    /\ settings.transaction_settlement_window > 0
    /\ \E r \in Done : reqs[r].op = "order" /\ reqs[r].task = "completed"
    /\ \E r \in Done : reqs[r].op = "create_order" /\ reqs[r].elapsed > 0

\* C20: a stored order keeps all its fields in every step, except that the
\* settlement task of the order may change its status once, from created
\* to settled; no duplicate submission, listing, wallet request or failure
\* changes or removes a row, ids identify rows, and no stored order has
\* status pending
SettledBySettlement(o) ==
    /\ o.status = "created"
    /\ [o EXCEPT !.status = "settled"] \in orders'
    /\ \E r \in Reqs :
         /\ reqs[r].order = o.id
         /\ reqs[r].task = "running"
         /\ reqs'[r].task = "completed"

C20_OrderLifecycle ==
    /\ [][\A o \in orders : o \in orders' \/ SettledBySettlement(o)]_vars
    /\ [](\A o \in orders : o.status \in {"created", "settled"})
    /\ [](\A o1, o2 \in orders : o1.id = o2.id => o1 = o2)

\* a stored order that was resubmitted (idempotency hit), listed, and whose
\* settlement task has completed
C20_Witness ==
    \E r1, r2 \in Done :
      /\ r1 # r2
      /\ reqs[r1].order = reqs[r2].order
      /\ reqs[r1].order \in OrderIds
      /\ reqs[r1].task = "completed"
      /\ listed.orders # {}

OnlyRequestOn(r) ==
    \A q \in Started \ {r} : reqs[q].customer_id # reqs[r].customer_id

C22_GetOrCreate ==
    \A r \in Done :
      (reqs[r].op = "get" /\ OnlyRequestOn(r)) =>
        LET c == reqs[r].customer_id IN
        /\ HasWallet(c)
        /\ wallet_rows[c] = 1
        /\ wallets[c] = InitialBalance(c)
        /\ reqs[r].result = WalletResponse(InitialBalance(c))

\* a read provisioned the wallet of a fresh customer while a credit on the
\* other customer went through
C22_Witness ==
    \E r, q \in Done :
      /\ reqs[r].op = "get"
      /\ reqs[r].customer_id \notin DOMAIN balance0
      /\ reqs[r].result = WalletResponse(0)
      /\ reqs[q].op = "credit" /\ Succeeded(q)
      /\ reqs[q].customer_id # reqs[r].customer_id

\* C23: for calls made one after the other on a customer, a successful
\* credit of a answers with the previous balance (0 without a wallet) plus
\* a, a successful debit of a with the previous balance minus a, a read
\* with the balance as it is, and the stored balance is the one last
\* reported
Earlier(r, op) ==
    {q \in SuccessfulOps(reqs[r].customer_id, op) : q < r}

PreviousBalance(r) ==
    InitialBalance(reqs[r].customer_id)
      + SumAmounts(Earlier(r, "credit")) - SumAmounts(Earlier(r, "debit"))

C23_SequentialBalances ==
    /\ \A r \in Done :
         Succeeded(r) =>
           reqs[r].result.balance =
             PreviousBalance(r) + (IF reqs[r].op = "get" THEN 0 ELSE Delta(r))
    /\ \A r \in Done :
         (Succeeded(r) /\ \A q \in Reqs : q > r => reqs[q].pc = "idle") =>
           StoredBalance(reqs[r].customer_id) = reqs[r].result.balance

\* a credit on a customer followed by a debit on the same customer, both
\* successful
C23_Witness ==
    \E r, q \in Done :
      /\ r < q
      /\ reqs[r].customer_id = reqs[q].customer_id
      /\ reqs[r].op = "credit" /\ Succeeded(r)
      /\ reqs[q].op = "debit" /\ Succeeded(q)
      /\ reqs[q].result.balance = reqs[r].result.balance - reqs[q].amount

\* ---------------------------------------------------------------- C24
\* the next statement of the wallet request in slot r
WalletStep(r) ==
    \/ credit_wallet_select(r)
    \/ credit_wallet_commit(r)
    \/ debit_wallet_select(r)
    \/ debit_wallet_commit(r)
    \/ get_wallet_select(r)
    \/ get_wallet_insert(r)
    \/ wallet_refresh(r)
    \/ get_db_close(r)

\* the requests in flight on another customer than r's
InFlightElsewhere(r) ==
    {q \in Started \ Done : reqs[q].customer_id # reqs[r].customer_id}

\* what the request answers when it is the only one the ledger ever served
AloneOutcome(r) ==
    LET c == reqs[r].customer_id
        a == reqs[r].amount IN
    CASE reqs[r].op = "credit" -> WalletResponse(InitialBalance(c) + a)
      [] reqs[r].op = "get" -> WalletResponse(InitialBalance(c))
      [] reqs[r].op = "debit" ->
           IF c \notin DOMAIN balance0 THEN WalletNotFound
           ELSE IF balance0[c] < a THEN InsufficientBalanceError
           ELSE WalletResponse(balance0[c] - a)

\* C24: wallet operations on different customer_ids are independent: a
\* request in flight whose own customer's row is not locked by another
\* request can always take its next step, whatever locks and requests
\* there are on other customers (it never waits for them), and a request
\* that was the only one on its customer ends with the answer it would
\* have had alone (it is never failed by them).
C24_CustomersIndependent ==
    /\ \A r \in Started \ Done :
         lock[reqs[r].customer_id] \subseteq {r} => ENABLED WalletStep(r)
    /\ \A r \in Done :
         OnlyRequestOn(r) => reqs[r].result = AloneOutcome(r)

\* a credit on one customer and a debit on another hold their row locks at
\* the same time: the second lock was granted while the first was held
C24_Witness ==
    \E r, q \in Reqs, a, b \in Customers :
      /\ a # b
      /\ reqs[r].customer_id = a /\ r \in lock[a]
      /\ reqs[q].customer_id = b /\ q \in lock[b]
      /\ reqs[r].op = "credit" /\ reqs[q].op = "debit"
      /\ reqs[r].pc = "commit" /\ reqs[q].pc = "commit"

\* ---------------------------------------------------------------- C25
\* the requests that hold the row lock of customer c
Holders(c) == lock[c]

\* C25: the row lock a credit or debit takes is released on every exit
\* path.  A row is locked only by a request on that customer that is
\* between its SELECT ... FOR UPDATE and the end of its transaction, by at
\* most one of them, and a request that has ended (with a balance, with
\* "Wallet not found" or "Insufficient balance", or with a storage failure)
\* holds no lock.
C25_LockReleasedOnEveryExit ==
    /\ \A c \in Customers : \A r \in Holders(c) :
         /\ reqs[r].customer_id = c
         /\ reqs[r].op \in {"credit", "debit"}
         /\ reqs[r].pc \in {"commit", "close"}
         /\ Holders(c) = {r}
    /\ \A r \in Done : \A c \in Customers : r \notin Holders(c)

\* a debit refused for insufficient balance (its SELECT had locked the
\* row) and a credit ended by a storage failure have both ended, and no
\* row is locked
C25_Witness ==
    \E r, q \in Done :
      /\ reqs[r].op = "debit" /\ reqs[r].result = InsufficientBalanceError
      /\ reqs[q].op = "credit" /\ reqs[q].failed
      /\ reqs[q].customer_id = reqs[r].customer_id
      /\ \A c \in Customers : Holders(c) = {}

\* ---------------------------------------------------------------- C26
\* the audit records written by the request in slot r
AuditOf(r) == {a \in audit : a.by = r}

\* the credits and debits that were answered with the new balance
SuccessfulMutations ==
    {r \in Done : reqs[r].op \in {"credit", "debit"} /\ Succeeded(r)}

\* the credit or debit in slot r commits in this step
Commits(r) ==
    /\ reqs[r].op \in {"credit", "debit"}
    /\ reqs[r].pc = "commit" /\ reqs'[r].pc = "refresh"

\* C26: every successful credit and every successful debit has written
\* exactly one audit record, with its customer, its amount, the old and
\* the new balance, new = old + amount for a credit and new = old - amount
\* for a debit; and when the operation commits, the recorded old balance is
\* the stored balance it replaces and the recorded new balance is the
\* balance it stores.
C26_AuditOfSuccess ==
    /\ [](\A r \in SuccessfulMutations :
            \E a \in audit :
              /\ AuditOf(r) = {a}
              /\ a.op = reqs[r].op
              /\ a.customer_id = reqs[r].customer_id
              /\ a.amount = reqs[r].amount
              /\ a.new_balance = IF a.op = "credit"
                                 THEN a.old_balance + a.amount
                                 ELSE a.old_balance - a.amount)
    /\ [][\A r \in Reqs :
            Commits(r) =>
              \E a \in audit :
                /\ AuditOf(r) = {a}
                /\ a.old_balance = StoredBalance(reqs[r].customer_id)
                /\ a.new_balance = wallets'[reqs[r].customer_id]]_vars

\* a credit and a debit on one customer have both succeeded, each with its
\* audit record, and the stored balance is the new balance of the later one
C26_Witness ==
    \E r, q \in SuccessfulMutations :
      /\ reqs[r].op = "credit" /\ reqs[q].op = "debit"
      /\ reqs[r].customer_id = reqs[q].customer_id
      /\ Cardinality(AuditOf(r) \cup AuditOf(q)) = 2
      /\ \E a \in AuditOf(q), b \in AuditOf(r) :
           /\ a.old_balance = b.new_balance
           /\ a.new_balance = wallets[reqs[q].customer_id]
           /\ a.new_balance < a.old_balance

\* ---------------------------------------------------------------- C27
Active(u) == u \in DOMAIN users /\ users[u]
Deactivated(u) == u \in DOMAIN users /\ ~users[u]

\* C27: no wallet or order operation runs for an identity whose is_active
\* flag is false.  Every request that entered a wallet or order service,
\* and every listing answered, has an active caller; a request of a
\* deactivated caller is refused by the identity resolution with 400
\* "Account deactivated", and the step that refuses it changes no wallet,
\* no order and no request in the service.
C27_InactiveIdentityRefused ==
    /\ [](\A r \in Started : Active(reqs[r].caller))
    /\ [](listed # NoListing => Active(listed.caller))
    /\ []((rejected # NoRejected /\ Deactivated(rejected.caller)) =>
            rejected.result = HTTPException(400, "Account deactivated"))
    /\ [][(rejected' # rejected /\ Deactivated(rejected'.caller)) =>
            UNCHANGED <<wallets, wallet_rows, orders, lock, reqs, listed,
                        audit>>]_vars

\* a credit of a deactivated caller was refused with "Account deactivated"
\* while a request of an active caller was served and stored its change
C27_Witness ==
    /\ rejected.op = "credit"
    /\ Deactivated(rejected.caller)
    /\ rejected.customer_id = rejected.caller
    /\ rejected.result = HTTPException(400, "Account deactivated")
    /\ \E r \in Done :
         /\ Active(reqs[r].caller)
         /\ reqs[r].op = "credit" /\ Succeeded(r)
    /\ \A c \in Customers : Deactivated(c) => StoredBalance(c) = InitialBalance(c)

\* ---------------------------------------------------------------- C28
\* the step changes the stored balance of customer c
BalanceChanges(c) ==
    StoredBalance(c) # (IF c \in DOMAIN wallets' THEN wallets'[c] ELSE 0)

\* a stored balance is changed only by the commit of a credit or debit on
\* that customer, and no Wallet row is ever removed
ChangedByOwnCommit ==
    /\ [][\A c \in Customers :
            BalanceChanges(c) =>
              \E r \in Reqs : Commits(r) /\ reqs[r].customer_id = c]_vars
    /\ [][DOMAIN wallets \subseteq DOMAIN wallets']_vars

\* C28: a wallet balance is changed only by a successful credit or debit on
\* the same customer_id.  Every step that changes a balance is the commit
\* of a credit or debit on that customer (order submissions, listings,
\* settlement tasks and requests on other customers change none), no
\* wallet is ever removed, and once all requests have returned each balance
\* is the initial one plus the successful credits minus the successful
\* debits on that customer.
C28_BalanceFrame ==
    /\ ChangedByOwnCommit
    /\ [](AllDone => \A c \in Customers : NoLostUpdate(c))

\* ---------------------------------------------------------------- C29
\* the answered submissions that were not subject to the idempotency check
UncheckedSubmissions ==
    {r \in Done : reqs[r].op = "order"
                  /\ ~ChecksIdempotency(reqs[r].idempotency_key)}

\* the stored row that the submission in slot r was answered with
RowOf(r) == {o \in orders : o.id = reqs[r].result.order_id}

PendingIds ==
    {reqs[r].result.order_id :
       r \in {q \in Done : reqs[q].result.order_status = "pending"}}

\* C30: GET /orders returns exactly the stored orders of the requested
\* customer: at the step that answers, the list is the set of stored rows
\* with that customer_id; and no listed order is a synthetic pending order
\* (by status or by id) or has the amount of a refused submission.
C30_ListingIsStoredOrders ==
    /\ [][listed' # listed =>
            listed'.orders =
              {o \in orders : o.customer_id = listed'.customer_id}]_vars
    /\ [](\A o \in listed.orders :
            /\ o \in orders
            /\ o.customer_id = listed.customer_id
            /\ o.status # "pending"
            /\ o.id \notin PendingIds
            /\ ~OutOfBounds(o.amount))

\* a fresh customer's order was created, a submission with amount 0 for the
\* same customer was refused, and the listing of the customer has length 1
C30_Witness ==
    /\ listed.status = 200
    /\ Cardinality(listed.orders) = 1
    /\ listed.orders = orders
    /\ \E r \in Done :
         /\ reqs[r].result = OrderResponse(reqs[r].order, "created")
         /\ reqs[r].customer_id = listed.customer_id
         /\ \A o \in listed.orders : o.id = reqs[r].order
    /\ rejected.op = "order" /\ rejected.amount = 0
    /\ rejected.customer_id = listed.customer_id

\* ---------------------------------------------------------------- C31
Registrations == {r \in Done : reqs[r].op = "register"}
UserRowsOf(r) == {x \in user_rows : x.by = r}
\* the rows another registration (or the seed) stored under the user_id or
\* the email of registration r
RegisteredByOthers(r) ==
    {x \in user_rows \ UserRowsOf(r) :
        x.user_id = reqs[r].user_id \/ x.email = reqs[r].email}

Quiet(c) == \A r \in Started : reqs[r].customer_id = c => r \in Done

\* C32: balances are kept exactly: once the requests on a customer have
\* returned, the stored balance is the initial balance plus the exact sum
\* of the successfully credited amounts minus the exact sum of the
\* successfully debited amounts; no rounding of a floating-point number
\* enters it.
C32_ExactDecimalBalance ==
    \A c \in Customers :
        Quiet(c) =>
            StoredBalance(c) - InitialBalance(c) =
                SumAmounts(SuccessfulOps(c, "credit"))
                  - SumAmounts(SuccessfulOps(c, "debit"))

\* ---------------------------------------------------------------- C33
\* every worker thread keeps running and the database grants a free row
\* lock to a waiting statement: a request whose next statement can run
\* does run
WalletFairness == \A r \in Reqs : WF_vars(WalletStep(r))
SpecWalletLive == Init /\ [][WalletPairNext]_vars /\ WalletFairness

LocksHeld(r) == {c \in Customers : r \in lock[c]}
\* the request is at a locking SELECT whose row another request holds
Waiting(r) ==
    /\ reqs[r].pc = "select" /\ reqs[r].op \in {"credit", "debit"}
    /\ HasWallet(reqs[r].customer_id)
    /\ ~RowLockAvailable(reqs[r].customer_id)

\* C33: no request ever holds more than one row lock, and a request that
\* waits for a row holds none; in every state with a request in flight
\* some request can take a step (no deadlock); and every credit, debit and
\* read that has started eventually returns a result.
C33_EveryRequestReturns ==
    /\ [](\A r \in Reqs : /\ Cardinality(LocksHeld(r)) <= 1
                          /\ Waiting(r) => LocksHeld(r) = {})
    /\ [](Started # Done => \E r \in Started \ Done : ENABLED WalletStep(r))
    /\ \A r \in Reqs : (r \in Started) ~> (r \in Done /\ Answered(r))

\* a request waits at its SELECT for the row another request has locked
C33_Witness ==
    \E r, q \in Reqs :
        /\ Waiting(r)
        /\ reqs[q].customer_id = reqs[r].customer_id
        /\ reqs[q].pc \in {"commit", "close"}
        /\ LocksHeld(q) = {reqs[r].customer_id}

\* ---------------------------------------------------------------- C34
\* C34: a debit of exactly the stored balance passes the balance rule and
\* its commit leaves the balance at 0; a debit is refused as insufficient
\* exactly when its amount is strictly larger than the stored balance; a
\* debit of the whole balance that is alone on its customer is answered
\* with balance 0.
C34_DebitOfWholeBalance ==
    /\ [][\A r \in Reqs :
            /\ (DebitSelects(r) /\ HasWallet(reqs[r].customer_id)) =>
                 (reqs'[r].result = InsufficientBalanceError
                    <=> wallets[reqs[r].customer_id] < reqs[r].amount)
            /\ ( /\ Commits(r) /\ reqs[r].op = "debit"
                 /\ reqs[r].amount = wallets[reqs[r].customer_id] ) =>
                 wallets'[reqs[r].customer_id] = 0]_vars
    /\ [](\A r \in Done :
            ( /\ reqs[r].op = "debit" /\ OnlyRequestOn(r)
              /\ reqs[r].customer_id \in DOMAIN balance0
              /\ reqs[r].amount = InitialBalance(reqs[r].customer_id) ) =>
                /\ reqs[r].result = WalletResponse(0)
                /\ StoredBalance(reqs[r].customer_id) = 0)

\* a debit of the whole initial balance has returned balance 0
C34_Witness ==
    \E r \in Done :
        /\ reqs[r].op = "debit" /\ OnlyRequestOn(r)
        /\ reqs[r].customer_id \in DOMAIN balance0
        /\ reqs[r].amount = InitialBalance(reqs[r].customer_id)
        /\ reqs[r].amount > 0
        /\ reqs[r].result = WalletResponse(0)
        /\ wallets[reqs[r].customer_id] = 0

\* ---------------------------------------------------------------- C35
\* the credits and reads of the customer of r that have returned
CreditsAndReadsWith(r) ==
    {q \in Done : /\ reqs[q].customer_id = reqs[r].customer_id
                  /\ reqs[q].op \in {"credit", "get"}}

\* C35: without a storage outage every credit that entered the service is
\* answered 200, and so is every credit or read of the same customer that
\* ran together with it, also when the customer had no wallet; the
\* customer then has one wallet, and once the requests on it have returned
\* its balance is the initial balance changed by the answered credits and
\* debits.
C35_FirstCreditSucceeds ==
    \A r \in Done :
        reqs[r].op = "credit" =>
            /\ \A q \in CreditsAndReadsWith(r) : Succeeded(q)
            /\ wallet_rows[reqs[r].customer_id] = 1
            /\ Quiet(reqs[r].customer_id) =>
                 NoLostUpdate(reqs[r].customer_id)

\* ---------------------------------------------------------------- C36
\* the stored orders whose id and status the answer of r carries
Handed(r) == {o \in orders : o.id = reqs[r].result.order_id}

\* C36: every submission answered 201 with a stored (non-pending) order
\* was handed an order of its caller, also when the idempotency key was
\* first used by another customer.
C36_ReturnedOrderIsCallers ==
    \A r \in Done :
        ( /\ reqs[r].op = "order"
          /\ reqs[r].result.status = 201
          /\ reqs[r].result.order_status # "pending" ) =>
            /\ Handed(r) # {}
            /\ \A o \in Handed(r) : o.customer_id = reqs[r].caller

\* ---------------------------------------------------------------- C37
\* the submissions answered with a synthetic pending order or with 500
Unfulfilled ==
    {r \in Done : /\ reqs[r].op = "order"
                  /\ \/ reqs[r].result.status = 500
                     \/ reqs[r].result.order_status = "pending"}
\* the rows that submission r stored
ProducedBy(r) == {o \in orders : o.id = reqs[r].order}

\* C37: a submission answered with a synthetic pending order or with 500
\* has left no order row of its own in the store, whichever statement of
\* the creation failed.
C37_FailedSubmissionStoresNothing ==
    \A r \in Unfulfilled : ProducedBy(r) = {}

\* ---------------------------------------------------------------- C38
\* the settlement tasks the route has queued for the order id
TasksFor(id) ==
    {r \in Reqs : /\ reqs[r].op = "order" /\ reqs[r].task # ""
                  /\ reqs[r].order = id}

\* C38: at most one settlement task is ever queued per stored order; a
\* submission that hits the idempotency key and is answered with the
\* existing order queues none.
C38_OneSettlementTaskPerOrder ==
    \A o \in orders : Cardinality(TasksFor(o.id)) <= 1

\* ---------------------------------------------------------------- C39
\* the credit or debit in slot r ends in failure in this step, before its
\* commit has stored anything
FailsUncommitted(r) ==
    /\ reqs[r].op \in {"credit", "debit"}
    /\ reqs[r].pc \in {"select", "commit"}
    /\ reqs'[r].pc \in {"close", "done"}
    /\ reqs'[r].result.status >= 400

\* C39: the audit trail has records of committed mutations only: when a
\* credit or debit ends in failure without having committed (a refusal, a
\* failure of the SELECT, a failure of the commit followed by rollback),
\* no WALLET_CREDIT / WALLET_DEBIT record of it is in the trail.
C39_AuditOnlyCommitted ==
    [][\A r \in Reqs : FailsUncommitted(r) => AuditOf(r)' = {}]_vars

====
